---- MODULE Spec2Model ----
(***************************************************************************)
(* Model of the email attachment processor (src/src/email_processor.py):   *)
(* EmailProcessor.load_config, fetch_emails, filter_attachments,           *)
(* parse_attachment, upload_to_datastore, process_single_attachment,       *)
(* process_emails (with its ThreadPoolExecutor), send_notification,        *)
(* run_with_retry and main.                                                *)
(*                                                                         *)
(* Strings that the code inspects character by character (filenames, the   *)
(* ATTACHMENT_TYPES setting) are sequences of one-character strings.       *)
(***************************************************************************)
EXTENDS Integers, Sequences, FiniteSets, TLC

VARIABLES
    call_args,               \* a direct call of filter_attachments: the caller's list
    call_result,             \* ... and the list the last call returned
    filtered,                \* filter_attachments: the list being built (line 348)
    config,                  \* self.config, as load_config leaves it
    entry,                   \* "main": main() -> run_with_retry; "test": process_emails(test_mode=True)
    pc,                      \* position of the coordinating thread
    attempt,                 \* run_with_retry's loop variable
    emails,                  \* process_emails: the fetched list
    imap_error,              \* fetch_emails: the IMAP session of this attempt raised
    idx,                     \* position of the for loop that is running (emails, or attachments in the filter)
    total_emails,
    emails_with_attachments,
    total_attachments,
    processed_attachments,
    all_attachments,         \* the flattened work list
    futures,                 \* the executor's futures, one per submitted item
    today,                   \* the date datetime.now() gives to an upload
    bucket,                  \* the GCS bucket: blob path -> content
    notifications,           \* messages handed to sg.send, in order
    calls,                   \* how often each operation was invoked
    log,                     \* what the collection loop logged for each item; in a direct filter call, its warnings
    exit_code                \* main's exit status (-1 while running)

vars == <<call_args, call_result, filtered, config, entry, pc, attempt, emails, imap_error, idx, total_emails,
          emails_with_attachments, total_attachments, processed_attachments,
          all_attachments, futures, today, bucket, notifications, calls, log,
          exit_code>>

-----------------------------------------------------------------------------
(* Bounds of the model *)

MaxAttempts == 3        \* largest RETRY_ATTEMPTS tried
MaxWorkers == 2         \* largest MAX_WORKERS tried
MaxEmails == 2          \* most messages in one fetched batch
MaxNameLen == 3         \* longest filename enumerated for the filter
MaxAttachments == 3     \* longest attachment list handed to the filter directly

(* Program constants *)

BytesPerMb == 1048576   \* 1024 * 1024 in filter_attachments
DefaultRetryAttempts == 3   \* RETRY_ATTEMPTS when the environment sets none
Accepted == 202         \* the SendGrid status send_notification takes as sent

-----------------------------------------------------------------------------
(* Python string and dict helpers *)

\* str.lower() on one character
LowerChar(c) ==
    CASE c = "P" -> "p"
      [] c = "A" -> "a"
      [] c = "X" -> "x"
      [] OTHER -> c

\* str.lower()
Lower(s) == [i \in DOMAIN s |-> LowerChar(s[i])]

\* sep in s
Contains(s, sep) == \E i \in DOMAIN s : s[i] = sep

\* str.split(sep): every occurrence of sep cuts, empty pieces are kept
RECURSIVE Split(_, _)
Split(s, sep) ==
    IF ~Contains(s, sep)
    THEN <<s>>
    ELSE LET i == CHOOSE k \in DOMAIN s :
                      /\ s[k] = sep
                      /\ \A j \in 1..(k - 1) : s[j] # sep
         IN  <<SubSeq(s, 1, i - 1)>> \o Split(SubSeq(s, i + 1, Len(s)), sep)

\* list[-1]
LastOf(l) == l[Len(l)]

\* x in list
InList(x, l) == \E i \in DOMAIN l : l[i] = x

\* dict.get(key, default)
Get(d, key, default) == IF key \in DOMAIN d THEN d[key] ELSE default

-----------------------------------------------------------------------------
(* Values *)

NoneStr == <<"N", "o", "n", "e">>       \* how None prints in an f-string
Unknown == <<"u", "n", "k", "n", "o", "w", "n">>   \* the 'unknown' default filename
NoError == "None"                       \* result['error'] = None
UploadFailed == "Upload failed"         \* the text of line 477

\* base64.b64decode on the payload strings of the model; a string that is not
\* valid base64 raises binascii.Error
B64Raises(s) == s \notin {"", "eA==", "eQ=="}
B64Decode(s) ==
    CASE s = "" -> ""
      [] s = "eA==" -> "x"
      [] s = "eQ==" -> "y"
      [] OTHER -> "binascii.Error"

-----------------------------------------------------------------------------
(* load_config *)

\* the settings load_config reads; the required fields (among them
\* email_api_key) are present, or load_config exits before any run
load_config(env) ==
    [ attachment_types       |-> Split(env.ATTACHMENT_TYPES, ","),
      max_attachment_size_mb |-> env.MAX_ATTACHMENT_SIZE_MB,
      max_workers            |-> env.MAX_WORKERS,
      retry_attempts         |-> env.RETRY_ATTEMPTS,
      notification_email     |-> env.NOTIFICATION_EMAIL,
      email_api_key          |-> "key",
      enable_notifications   |-> env.ENABLE_NOTIFICATIONS = "true" ]

-----------------------------------------------------------------------------
(* filter_attachments *)

\* the extension is compared as it is written
FileExtensionAsWritten(filename) ==
    IF Contains(filename, ".") THEN LastOf(Split(filename, ".")) ELSE <<>>

\* line 354
FileExtension(filename) ==
    IF Contains(filename, ".") THEN Lower(LastOf(Split(filename, "."))) ELSE <<>>

\* line 349
MaxSizeBytes(cfg) == cfg.max_attachment_size_mb * 1024 * 1024

\* line 356: the type check lets the attachment through
TypeAllowed(attachment, cfg) ==
    InList(FileExtension(Get(attachment, "filename", <<>>)), cfg.attachment_types)

\* the size check with >= for >
TooLargeAtCeiling(attachment, cfg) == Get(attachment, "size", 0) >= MaxSizeBytes(cfg)

\* line 361: the size check skips the attachment
TooLarge(attachment, cfg) == Get(attachment, "size", 0) > MaxSizeBytes(cfg)

\* one pass of the loop body: TRUE when the attachment is appended
Keeps(attachment, cfg) == TypeAllowed(attachment, cfg) /\ ~TooLarge(attachment, cfg)

\* lines 348-367: the attachments appended to the fresh list, in input order
filter_attachments(attachments, cfg) ==
    SelectSeq(attachments, LAMBDA a : Keeps(a, cfg))

-----------------------------------------------------------------------------
(* parse_attachment, upload_to_datastore, process_single_attachment *)

\* What the environment does to one worker invocation:
\*   "none"         nothing fails
\*   "upload_error" the storage call raises (transport error, backend rejection)
\*   "parse_error"  parse_attachment raises
\*   "entry_error"  something raises before the try block of
\*                  process_single_attachment is entered
WorkerFaults == {"none", "upload_error", "parse_error", "entry_error"}

\* str(e) of the exception the environment raises
Describe(fault) ==
    CASE fault = "upload_error" -> "storage: put rejected"
      [] fault = "parse_error" -> "parse: bad attachment"
      [] fault = "entry_error" -> "worker: fault before try"
      [] OTHER -> NoError

\* lines 384-394: the record has no 'data' key; a key the attachment lacks
\* gives None; now is what datetime.now() gives at line 390
parse_attachment(attachment, now) ==
    [ filename       |-> Get(attachment, "filename", NoneStr),
      content_type   |-> Get(attachment, "content_type", "None"),
      size           |-> Get(attachment, "size", "None"),
      parsed_content |-> "None",
      metadata       |-> [ parsed_at      |-> now,
                           parser_version |-> "1.0.0",
                           status         |-> "pending_implementation" ] ]

\* line 415
BlobPath(day, filename) == <<day, filename>>

\* line 429: the bytes handed to upload_from_string
UploadPayload(parsed) == Get(parsed, "data", "")

\* upload_to_datastore's return value
UploadOk(parsed, fault) ==
    /\ fault # "upload_error"
    /\ ~B64Raises(UploadPayload(parsed))

\* an object that exists is not written over: the upload goes to a fresh key
upload_to_datastore_no_overwrite(b, day, parsed, fault) ==
    IF UploadOk(parsed, fault)
    THEN LET path == IF BlobPath(day, parsed.filename) \in DOMAIN b
                     THEN BlobPath(day, Append(parsed.filename, "~"))
                     ELSE BlobPath(day, parsed.filename)
         IN  [p \in DOMAIN b \cup {path} |->
                 IF p = path THEN B64Decode(UploadPayload(parsed)) ELSE b[p]]
    ELSE b

\* the bucket after upload_to_datastore
upload_to_datastore(b, day, parsed, fault) ==
    IF UploadOk(parsed, fault)
    THEN LET path == BlobPath(day, parsed.filename)
         IN  [p \in DOMAIN b \cup {path} |->
                 IF p = path THEN B64Decode(UploadPayload(parsed)) ELSE b[p]]
    ELSE b

\* process_single_attachment raises instead of returning
WorkerRaises(fault) == fault = "entry_error"

\* result['error'] at line 485
ResultError(attachment, fault, now) ==
    IF fault = "parse_error" THEN Describe(fault)
    ELSE IF UploadOk(parse_attachment(attachment, now), fault) THEN NoError
    ELSE UploadFailed

\* success is set before the upload's answer is looked at
process_single_attachment_optimistic(attachment, email_subject, fault, now) ==
    [ filename      |-> Get(attachment, "filename", Unknown),
      email_subject |-> email_subject,
      success       |-> fault # "parse_error",
      error         |-> ResultError(attachment, fault, now) ]

\* the dictionary process_single_attachment returns
process_single_attachment(attachment, email_subject, fault, now) ==
    [ filename      |-> Get(attachment, "filename", Unknown),
      email_subject |-> email_subject,
      success       |-> /\ fault # "parse_error"
                        /\ UploadOk(parse_attachment(attachment, now), fault),
      error         |-> ResultError(attachment, fault, now) ]

\* the bucket after process_single_attachment
BucketAfter(b, day, attachment, fault) ==
    IF fault \in {"parse_error", "entry_error"} THEN b
    ELSE upload_to_datastore(b, day, parse_attachment(attachment, day), fault)

-----------------------------------------------------------------------------
(* Inputs of a run *)

\* attachments as fetch_emails builds them (lines 245-250)
Attachment(name, size, data) ==
    [filename |-> name, size |-> size, content_type |-> "application/octet-stream",
     data |-> data]

AttReport == Attachment(<<"a", ".", "p">>, 512000, "eA==")
AttUpper == Attachment(<<"a", ".", "P">>, BytesPerMb, "eQ==")
AttImage == Attachment(<<"a", ".", "x">>, 2048000, "eA==")
AttHuge == Attachment(<<"b", ".", "p">>, BytesPerMb + 1, "eQ==")
AttBare == Attachment(<<"a">>, 10, "eA==")

Message(subject, attachments) == [subject |-> subject, attachments |-> attachments]

\* the messages a mailbox (or the mock generator) may hold
Messages ==
    { Message("empty", <<>>),
      Message("report", <<AttReport>>),
      Message("mixed", <<AttUpper, AttImage>>),
      Message("odd", <<AttHuge, AttBare>>) }

RECURSIVE SeqsUpTo(_, _)
SeqsUpTo(S, n) ==
    IF n = 0 THEN {<<>>}
    ELSE LET shorter == SeqsUpTo(S, n - 1)
         IN  shorter \cup {Append(q, x) : q \in {r \in shorter : Len(r) = n - 1}, x \in S}

Batches == SeqsUpTo(Messages, MaxEmails)

\* the process environments tried
Environments ==
    [ ATTACHMENT_TYPES       : {<<"p">>, <<"p", ",">>},
      MAX_ATTACHMENT_SIZE_MB : {1},
      MAX_WORKERS            : 0..MaxWorkers,
      RETRY_ATTEMPTS         : (-1)..MaxAttempts,
      NOTIFICATION_EMAIL     : {"", "ops@example.com"},
      ENABLE_NOTIFICATIONS   : {"true", "false"} ]

\* the dates of a run: midnight passes at most once
Days == {0, 1}

\* what the SendGrid client does to one send_notification
NotifyOutcomes == {"client_error", "send_error", "rejected", "accepted"}

-----------------------------------------------------------------------------
(* fetch_emails *)

\* lines 252-259: only messages with attachments are appended
WithAttachments(mailbox) == SelectSeq(mailbox, LAMBDA m : m.attachments # <<>>)

\* what fetch_emails returns: the mock list (lines 131-137), [] after any
\* IMAP error (lines 267-269), or the messages that carry attachments
fetch_emails(use_mock, mailbox, imap_raises) ==
    IF use_mock THEN mailbox
    ELSE IF imap_raises THEN <<>>
    ELSE WithAttachments(mailbox)

-----------------------------------------------------------------------------
(* State *)

NoFuture == <<>>
ZeroCalls == [process_emails |-> 0, fetch_emails |-> 0, raised |-> 0, sleep |-> 0,
              send_notification |-> 0, sendgrid |-> 0]

Init ==
    /\ call_args = <<>>
    /\ call_result = <<>>
    /\ filtered = <<>>
    /\ entry \in {"main", "test"}
    /\ \E env \in Environments :
          \* RETRY_ATTEMPTS is varied where an attempt can raise (MAX_WORKERS = 0)
          /\ (entry = "test" \/ env.MAX_WORKERS > 0) =>
                 env.RETRY_ATTEMPTS = DefaultRetryAttempts
          \* the recipient is read only when notifications are enabled
          /\ (env.ENABLE_NOTIFICATIONS = "false") => env.NOTIFICATION_EMAIL = ""
          \* the type list and the notification settings are read outside the
          \* pool: they are varied where the workers cannot interleave
          /\ env.MAX_WORKERS > 1 =>
                 /\ env.ATTACHMENT_TYPES = <<"p">>
                 /\ env.ENABLE_NOTIFICATIONS = "false"
          /\ config = load_config(env)
    /\ pc = IF entry = "main" THEN "loop" ELSE "fetch"
    /\ attempt = 0
    /\ emails = <<>>
    /\ imap_error = FALSE
    /\ idx = 1
    /\ total_emails = 0
    /\ emails_with_attachments = 0
    /\ total_attachments = 0
    /\ processed_attachments = 0
    /\ all_attachments = <<>>
    /\ futures = NoFuture
    /\ today = 0
    /\ bucket = <<>>
    /\ notifications = <<>>
    /\ calls = IF entry = "main" THEN ZeroCalls
               ELSE [ZeroCalls EXCEPT !.process_emails = 1]
    /\ log = <<>>
    /\ exit_code = -1

\* run_with_retry without the return of line 642
AfterReturnNoReturn == IF entry = "main" THEN "loop" ELSE "test_returned"

\* the except clause of process_emails without its raise
AfterRaiseSwallowed == IF entry = "main" THEN "success" ELSE "test_returned"

\* where control goes when process_emails returns, and when it raises
AfterReturn == IF entry = "main" THEN "success" ELSE "test_returned"
AfterRaise == IF entry = "main" THEN "failed" ELSE "test_raised"

-----------------------------------------------------------------------------
(* run_with_retry and main *)

\* range(0, n + 1): one attempt more than configured
RetryLoopOneMore ==
    /\ pc = "loop"
    /\ IF attempt <= config.retry_attempts
       THEN /\ attempt' = attempt + 1
            /\ calls' = [calls EXCEPT !.process_emails = @ + 1]
            /\ pc' = "fetch"
       ELSE /\ pc' = "fell_through"
            /\ UNCHANGED <<attempt, calls>>
    /\ UNCHANGED <<call_args, call_result, config, entry, emails, imap_error, idx,
                   total_emails, emails_with_attachments, total_attachments,
                   processed_attachments, all_attachments, futures, today, bucket,
                   notifications, log, exit_code>>
    /\ UNCHANGED filtered

\* a loop that tests its bound after the body: one attempt at least
RetryLoopAtLeastOnce ==
    /\ pc = "loop"
    /\ IF attempt + 1 <= config.retry_attempts \/ attempt = 0
       THEN /\ attempt' = attempt + 1
            /\ calls' = [calls EXCEPT !.process_emails = @ + 1]
            /\ pc' = "fetch"
       ELSE /\ pc' = "fell_through"
            /\ UNCHANGED <<attempt, calls>>
    /\ UNCHANGED <<call_args, call_result, config, entry, emails, imap_error, idx,
                   total_emails, emails_with_attachments, total_attachments,
                   processed_attachments, all_attachments, futures, today, bucket,
                   notifications, log, exit_code>>
    /\ UNCHANGED filtered

\* lines 637-640: the next iteration of "for attempt in range(1, n + 1)" calls
\* process_emails(); a range that is used up ends the function
RetryLoop ==
    /\ pc = "loop"
    /\ IF attempt + 1 <= config.retry_attempts
       THEN /\ attempt' = attempt + 1
            /\ calls' = [calls EXCEPT !.process_emails = @ + 1]
            /\ pc' = "fetch"
       ELSE /\ pc' = "fell_through"
            /\ UNCHANGED <<attempt, calls>>
    /\ UNCHANGED <<call_args, call_result, config, entry, emails, imap_error, idx, total_emails,
                   emails_with_attachments, total_attachments, processed_attachments, all_attachments,
                   futures, today, bucket, notifications, log, exit_code>>
    /\ UNCHANGED filtered

\* lines 644-649: the attempt raised and another one is left
RetrySleep ==
    /\ pc = "failed"
    /\ attempt < config.retry_attempts
    /\ calls' = [calls EXCEPT !.sleep = @ + 1]
    /\ pc' = "loop"
    /\ UNCHANGED <<call_args, call_result, config, entry, attempt, emails, imap_error, idx, total_emails,
                   emails_with_attachments, total_attachments, processed_attachments,
                   all_attachments, futures, today, bucket, notifications, log,
                   exit_code>>
    /\ UNCHANGED filtered

\* gives up one attempt early
RetryExhaustedEarly ==
    /\ pc = "failed"
    /\ ~(attempt + 1 < config.retry_attempts)
    /\ pc' = "exhausted"
    /\ UNCHANGED <<call_args, call_result, config, entry, attempt, emails, imap_error,
                   idx, total_emails, emails_with_attachments, total_attachments,
                   processed_attachments, all_attachments, futures, today, bucket,
                   notifications, calls, log, exit_code>>
    /\ UNCHANGED filtered

\* lines 650-652: the last attempt raised
RetryExhausted ==
    /\ pc = "failed"
    /\ ~(attempt < config.retry_attempts)
    /\ pc' = "exhausted"
    /\ UNCHANGED <<call_args, call_result, config, entry, attempt, emails, imap_error, idx, total_emails,
                   emails_with_attachments, total_attachments, processed_attachments,
                   all_attachments, futures, today, bucket, notifications, calls, log,
                   exit_code>>
    /\ UNCHANGED filtered

\* main: sys.exit(1) when run_with_retry raised, a normal end otherwise
MainExit ==
    /\ pc \in {"success", "fell_through", "exhausted"}
    /\ exit_code = -1
    /\ exit_code' = IF pc = "exhausted" THEN 1 ELSE 0
    /\ UNCHANGED <<call_args, call_result, config, entry, pc, attempt, emails, imap_error, idx, total_emails,
                   emails_with_attachments, total_attachments, processed_attachments,
                   all_attachments, futures, today, bucket, notifications, calls, log>>
    /\ UNCHANGED filtered

-----------------------------------------------------------------------------
(* process_emails *)

\* an empty fetch result is treated as an error
FetchEmptyRaises ==
    /\ pc = "fetch"
    /\ \E mailbox \in Batches, imap_raises \in BOOLEAN :
          LET fetched == fetch_emails(entry = "test", mailbox, imap_raises)
          IN  /\ entry = "test" => ~imap_raises
              /\ imap_raises => mailbox = <<>>
              /\ imap_error' = imap_raises
              /\ emails' = fetched
              /\ total_emails' = Len(fetched)
              /\ pc' = IF fetched = <<>> THEN AfterRaise ELSE "scan"
              /\ calls' = [calls EXCEPT !.fetch_emails = @ + 1,
                                        !.raised = IF fetched = <<>> THEN @ + 1 ELSE @]
    /\ idx' = 1
    /\ emails_with_attachments' = 0
    /\ total_attachments' = 0
    /\ processed_attachments' = 0
    /\ all_attachments' = <<>>
    /\ futures' = NoFuture
    /\ log' = <<>>
    /\ UNCHANGED <<call_args, call_result, config, entry, attempt, today, bucket,
                   notifications, exit_code>>
    /\ UNCHANGED filtered

\* the work list and the counters are attributes that outlive an attempt
FetchKeepingState ==
    /\ pc = "fetch"
    /\ calls' = [calls EXCEPT !.fetch_emails = @ + 1]
    /\ \E mailbox \in Batches, imap_raises \in BOOLEAN :
          LET fetched == fetch_emails(entry = "test", mailbox, imap_raises)
          IN  /\ entry = "test" => ~imap_raises
              /\ imap_raises => mailbox = <<>>
              /\ imap_error' = imap_raises
              /\ emails' = fetched
              /\ total_emails' = Len(fetched)
              /\ pc' = IF fetched = <<>> THEN AfterReturn ELSE "scan"
    /\ idx' = 1
    /\ processed_attachments' = 0
    /\ futures' = NoFuture
    /\ log' = <<>>
    /\ UNCHANGED <<call_args, call_result, config, entry, attempt, today, bucket,
                   notifications, exit_code, emails_with_attachments,
                   total_attachments, all_attachments>>
    /\ UNCHANGED filtered

\* lines 496-509: fetch, the early return on an empty list, the fresh counters
Fetch ==
    /\ pc = "fetch"
    /\ calls' = [calls EXCEPT !.fetch_emails = @ + 1]
    /\ \E mailbox \in Batches, imap_raises \in BOOLEAN :
          LET fetched == fetch_emails(entry = "test", mailbox, imap_raises)
          IN  /\ entry = "test" => ~imap_raises      \* the mock path opens no session
              /\ imap_raises => mailbox = <<>>       \* what was read is dropped
              /\ imap_error' = imap_raises
              /\ emails' = fetched
              /\ total_emails' = Len(fetched)
              /\ pc' = IF fetched = <<>> THEN AfterReturn ELSE "scan"
    /\ idx' = 1
    /\ emails_with_attachments' = 0
    /\ total_attachments' = 0
    /\ processed_attachments' = 0
    /\ all_attachments' = <<>>
    /\ futures' = NoFuture
    /\ log' = <<>>
    /\ UNCHANGED <<call_args, call_result, config, entry, attempt, today, bucket, notifications, exit_code>>
    /\ UNCHANGED filtered

\* lines 527-531: the work items of one message
WorkItems(filtered_attachments, subject) ==
    [i \in DOMAIN filtered_attachments |->
        [attachment |-> filtered_attachments[i], email_subject |-> subject]]

\* a message counts as one with attachments only if the filter keeps one
ScanEmailCountingKept ==
    /\ pc = "scan"
    /\ idx <= Len(emails)
    /\ LET email == emails[idx]
           attachments == Get(email, "attachments", <<>>)
           filtered_attachments == filter_attachments(attachments, config)
       IN  IF attachments = <<>>
           THEN UNCHANGED <<emails_with_attachments, total_attachments, all_attachments>>
           ELSE /\ emails_with_attachments' =
                       IF filtered_attachments = <<>> THEN emails_with_attachments
                       ELSE emails_with_attachments + 1
                /\ total_attachments' = total_attachments + Len(filtered_attachments)
                /\ all_attachments' =
                       all_attachments \o WorkItems(filtered_attachments, Get(email, "subject", "No Subject"))
    /\ idx' = idx + 1
    /\ UNCHANGED <<call_args, call_result, config, entry, pc, attempt, emails,
                   imap_error, total_emails, processed_attachments, futures, today,
                   bucket, notifications, calls, log, exit_code>>
    /\ UNCHANGED filtered

\* total_attachments is assigned, not added to
ScanEmailAssigning ==
    /\ pc = "scan"
    /\ idx <= Len(emails)
    /\ LET email == emails[idx]
           attachments == Get(email, "attachments", <<>>)
           filtered_attachments == filter_attachments(attachments, config)
       IN  IF attachments = <<>>
           THEN UNCHANGED <<emails_with_attachments, total_attachments, all_attachments>>
           ELSE /\ emails_with_attachments' = emails_with_attachments + 1
                /\ total_attachments' = Len(filtered_attachments)
                /\ all_attachments' =
                       all_attachments \o WorkItems(filtered_attachments, Get(email, "subject", "No Subject"))
    /\ idx' = idx + 1
    /\ UNCHANGED <<call_args, call_result, config, entry, pc, attempt, emails,
                   imap_error, total_emails, processed_attachments, futures, today,
                   bucket, notifications, calls, log, exit_code>>
    /\ UNCHANGED filtered

\* total_attachments counts every attachment seen, not the filtered ones
ScanEmailCountingAll ==
    /\ pc = "scan"
    /\ idx <= Len(emails)
    /\ LET email == emails[idx]
           attachments == Get(email, "attachments", <<>>)
           filtered_attachments == filter_attachments(attachments, config)
       IN  IF attachments = <<>>
           THEN UNCHANGED <<emails_with_attachments, total_attachments, all_attachments>>
           ELSE /\ emails_with_attachments' = emails_with_attachments + 1
                /\ total_attachments' = total_attachments + Len(attachments)
                /\ all_attachments' =
                       all_attachments \o WorkItems(filtered_attachments, Get(email, "subject", "No Subject"))
    /\ idx' = idx + 1
    /\ UNCHANGED <<call_args, call_result, config, entry, pc, attempt, emails,
                   imap_error, total_emails, processed_attachments, futures, today,
                   bucket, notifications, calls, log, exit_code>>
    /\ UNCHANGED filtered

\* the unfiltered attachments are queued
ScanEmailQueueingAll ==
    /\ pc = "scan"
    /\ idx <= Len(emails)
    /\ LET email == emails[idx]
           attachments == Get(email, "attachments", <<>>)
           filtered_attachments == filter_attachments(attachments, config)
       IN  IF attachments = <<>>
           THEN UNCHANGED <<emails_with_attachments, total_attachments, all_attachments>>
           ELSE /\ emails_with_attachments' = emails_with_attachments + 1
                /\ total_attachments' = total_attachments + Len(filtered_attachments)
                /\ all_attachments' =
                       all_attachments \o WorkItems(attachments, Get(email, "subject", "No Subject"))
    /\ idx' = idx + 1
    /\ UNCHANGED <<call_args, call_result, config, entry, pc, attempt, emails,
                   imap_error, total_emails, processed_attachments, futures, today,
                   bucket, notifications, calls, log, exit_code>>
    /\ UNCHANGED filtered

\* lines 512-531: one pass of "for email in emails"
ScanEmail ==
    /\ pc = "scan"
    /\ idx <= Len(emails)
    /\ LET email == emails[idx]
           attachments == Get(email, "attachments", <<>>)
           filtered_attachments == filter_attachments(attachments, config)
       IN  IF attachments = <<>>
           THEN UNCHANGED <<emails_with_attachments, total_attachments, all_attachments>>
           ELSE /\ emails_with_attachments' = emails_with_attachments + 1
                /\ total_attachments' = total_attachments + Len(filtered_attachments)
                /\ all_attachments' =
                       all_attachments \o WorkItems(filtered_attachments, Get(email, "subject", "No Subject"))
    /\ idx' = idx + 1
    /\ UNCHANGED <<call_args, call_result, config, entry, pc, attempt, emails, imap_error, total_emails,
                   processed_attachments, futures, today, bucket, notifications,
                   calls, log, exit_code>>
    /\ UNCHANGED filtered

\* no blob path has been built
NoPath == -1

\* a future as executor.submit returns it, with the place its worker is at:
\* path is the date of the blob path once line 415 has built it, stored is
\* TRUE once upload_from_string has written the object
\* (fault and runs record what happened to the call, the program reads neither)
NewFuture == [state |-> "pending", success |-> FALSE, error |-> NoError,
              raised |-> FALSE, fault |-> "none", runs |-> 0,
              path |-> NoPath, stored |-> FALSE]

\* a pool per message: the pool is built as soon as one message has been read
StartPoolPerMessage ==
    /\ pc = "scan"
    /\ idx > 1
    /\ IF all_attachments = <<>>
       THEN /\ pc' = "summary"
            /\ UNCHANGED <<futures, calls, log>>
       ELSE IF config.max_workers <= 0
       THEN /\ pc' = AfterRaise
            /\ calls' = [calls EXCEPT !.raised = @ + 1]
            /\ UNCHANGED <<futures, log>>
       ELSE /\ futures' = NoFuture
            /\ log' = [i \in DOMAIN all_attachments |-> <<>>]
            /\ pc' = "submit"
            /\ UNCHANGED calls
    /\ UNCHANGED <<call_args, call_result, config, entry, attempt, emails, imap_error,
                   idx, total_emails, emails_with_attachments, total_attachments,
                   processed_attachments, all_attachments, today, bucket, notifications,
                   exit_code>>
    /\ UNCHANGED filtered

\* the pool is built whether or not there is work
StartPoolAlways ==
    /\ pc = "scan"
    /\ idx > Len(emails)
    /\ IF config.max_workers <= 0
       THEN /\ pc' = AfterRaise
            /\ calls' = [calls EXCEPT !.raised = @ + 1]
            /\ UNCHANGED <<futures, log>>
       ELSE /\ futures' = NoFuture
            /\ log' = [i \in DOMAIN all_attachments |-> <<>>]
            /\ pc' = IF all_attachments = <<>> THEN "collect" ELSE "submit"
            /\ UNCHANGED calls
    /\ UNCHANGED <<call_args, call_result, config, entry, attempt, emails, imap_error,
                   idx, total_emails, emails_with_attachments, total_attachments,
                   processed_attachments, all_attachments, today, bucket, notifications,
                   exit_code>>
    /\ UNCHANGED filtered

\* lines 534-537: nothing to do, or the executor is built;
\* ThreadPoolExecutor raises ValueError for max_workers <= 0
StartPool ==
    /\ pc = "scan"
    /\ idx > Len(emails)
    /\ IF all_attachments = <<>>
       THEN /\ pc' = "summary"
            /\ UNCHANGED <<futures, calls, log>>
       ELSE IF config.max_workers <= 0
       THEN /\ pc' = AfterRaise
            /\ calls' = [calls EXCEPT !.raised = @ + 1]
            /\ UNCHANGED <<futures, log>>
       ELSE /\ futures' = NoFuture
            /\ log' = [i \in DOMAIN all_attachments |-> <<>>]
            /\ pc' = "submit"
            /\ UNCHANGED calls
    /\ UNCHANGED <<call_args, call_result, config, entry, attempt, emails, imap_error, idx, total_emails,
                   emails_with_attachments, total_attachments, processed_attachments,
                   all_attachments, today, bucket, notifications, exit_code>>
    /\ UNCHANGED filtered

\* lines 539-545: one executor.submit of the comprehension; the worker
\* threads run while the later items are still to be submitted, and the
\* as_completed loop begins when the last one is
Submit ==
    /\ pc = "submit"
    /\ Len(futures) < Len(all_attachments)
    /\ futures' = Append(futures, NewFuture)
    /\ pc' = IF Len(futures) + 1 = Len(all_attachments) THEN "collect" ELSE "submit"
    /\ UNCHANGED <<call_args, call_result, config, entry, attempt, emails, imap_error,
                   idx, total_emails, emails_with_attachments, total_attachments,
                   processed_attachments, all_attachments, today, bucket, notifications,
                   calls, log, exit_code>>
    /\ UNCHANGED filtered

\* the pool is open: items are being submitted or collected
PoolOpen == pc \in {"submit", "collect"}

Running == {i \in DOMAIN futures : futures[i].state = "running"}

\* a thread per submitted item, whatever max_workers says
WorkerStartUnbounded(i) ==
    /\ PoolOpen
    /\ futures[i].state = "pending"
    /\ \A j \in 1..(i - 1) : futures[j].state # "pending"
    /\ futures' = [futures EXCEPT ![i].state = "running", ![i].runs = @ + 1]
    /\ UNCHANGED <<call_args, call_result, config, entry, pc, attempt, emails,
                   imap_error, idx, total_emails, emails_with_attachments,
                   total_attachments, processed_attachments, all_attachments, today,
                   bucket, notifications, calls, log, exit_code>>
    /\ UNCHANGED filtered

\* a free worker thread takes the oldest queued item
WorkerStart(i) ==
    /\ PoolOpen
    /\ futures[i].state = "pending"
    /\ \A j \in 1..(i - 1) : futures[j].state # "pending"
    /\ Cardinality(Running) < config.max_workers
    /\ futures' = [futures EXCEPT ![i].state = "running", ![i].runs = @ + 1]
    /\ UNCHANGED <<call_args, call_result, config, entry, pc, attempt, emails, imap_error, idx, total_emails,
                   emails_with_attachments, total_attachments, processed_attachments,
                   all_attachments, today, bucket, notifications, calls, log, exit_code>>
    /\ UNCHANGED filtered

\* the future of one finished process_single_attachment call
Finished(f, attachment, email_subject, fault, now) ==
    IF WorkerRaises(fault)
    THEN [f EXCEPT !.state = "finished", !.error = Describe(fault), !.raised = TRUE,
                   !.fault = fault]
    ELSE LET result == process_single_attachment(attachment, email_subject, fault, now)
         IN  [f EXCEPT !.state = "finished", !.success = result.success,
                       !.error = result.error, !.fault = fault]

\* lines 470 and 412-416: the attachment is parsed and the blob path is built
\* from the date of that moment
WorkerPath(i) ==
    /\ PoolOpen
    /\ futures[i].state = "running"
    /\ futures[i].path = NoPath
    /\ ~futures[i].stored
    /\ futures' = [futures EXCEPT ![i].path = today]
    /\ UNCHANGED <<call_args, call_result, config, entry, pc, attempt, emails, imap_error,
                   idx, total_emails, emails_with_attachments, total_attachments,
                   processed_attachments, all_attachments, today, bucket, notifications,
                   calls, log, exit_code>>
    /\ UNCHANGED filtered

\* lines 429-433: upload_from_string writes the object under the path built
\* before, whatever the date is by now
WorkerWrite(i) ==
    /\ PoolOpen
    /\ futures[i].state = "running"
    /\ futures[i].path # NoPath
    /\ bucket' = BucketAfter(bucket, futures[i].path, all_attachments[i].attachment, "none")
    /\ futures' = [futures EXCEPT ![i].path = NoPath, ![i].stored = TRUE]
    /\ UNCHANGED <<call_args, call_result, config, entry, pc, attempt, emails, imap_error,
                   idx, total_emails, emails_with_attachments, total_attachments,
                   processed_attachments, all_attachments, today, notifications, calls,
                   log, exit_code>>
    /\ UNCHANGED filtered

\* what can end the call at the place the worker is at: a fault before the
\* upload, a fault of the upload, or the return after the write
FaultsAt(f) ==
    IF f.stored THEN {"none"}
    ELSE IF f.path # NoPath THEN {"upload_error"}
    ELSE {"parse_error", "entry_error"}

\* process_single_attachment returns or raises, and the Future is set
WorkerFinish(i) ==
    /\ PoolOpen
    /\ futures[i].state = "running"
    /\ \E fault \in FaultsAt(futures[i]) :
          LET item == all_attachments[i]
          IN  futures' = [futures EXCEPT
                  ![i] = [Finished(@, item.attachment, item.email_subject, fault, today)
                             EXCEPT !.path = NoPath, !.stored = FALSE]]
    /\ UNCHANGED <<call_args, call_result, config, entry, pc, attempt, emails, imap_error,
                   idx, total_emails, emails_with_attachments, total_attachments,
                   processed_attachments, all_attachments, today, bucket, notifications,
                   calls, log, exit_code>>
    /\ UNCHANGED filtered

\* the date changes while uploads are under way
Midnight ==
    /\ PoolOpen
    /\ Running # {}
    /\ today + 1 \in Days
    /\ today' = today + 1
    /\ UNCHANGED <<call_args, call_result, config, entry, pc, attempt, emails, imap_error, idx, total_emails,
                   emails_with_attachments, total_attachments, processed_attachments,
                   all_attachments, futures, bucket, notifications, calls, log,
                   exit_code>>
    /\ UNCHANGED filtered

\* lines 549-557: what the loop body logs for one future
LogLine(f) ==
    IF f.raised THEN "unexpected"
    ELSE IF f.success THEN "completed" ELSE "failed"

\* the count is read before and written after the future is handled, and a
\* worker that finishes in between takes the increment with it
CollectLosingUpdates(i) ==
    /\ pc = "collect"
    /\ futures[i].state = "finished"
    /\ futures' = [futures EXCEPT ![i].state = "yielded"]
    /\ processed_attachments' =
           IF ~futures[i].raised /\ futures[i].success /\ Running = {}
           THEN processed_attachments + 1 ELSE processed_attachments
    /\ log' = [log EXCEPT ![i] = Append(@, LogLine(futures[i]))]
    /\ UNCHANGED <<call_args, call_result, config, entry, pc, attempt, emails, imap_error,
                   idx, total_emails, emails_with_attachments, total_attachments,
                   all_attachments, today, bucket, notifications, calls, exit_code>>
    /\ UNCHANGED filtered

\* the loop is left at the first future that is no success
CollectAborting(i) ==
    /\ pc = "collect"
    /\ futures[i].state = "finished"
    /\ futures' = [futures EXCEPT ![i].state = "yielded"]
    /\ processed_attachments' =
           IF ~futures[i].raised /\ futures[i].success
           THEN processed_attachments + 1 ELSE processed_attachments
    /\ log' = [log EXCEPT ![i] = Append(@, LogLine(futures[i]))]
    /\ pc' = IF ~futures[i].raised /\ futures[i].success THEN pc ELSE "summary"
    /\ UNCHANGED <<call_args, call_result, config, entry, attempt, emails, imap_error,
                   idx, total_emails, emails_with_attachments, total_attachments,
                   all_attachments, today, bucket, notifications, calls, exit_code>>
    /\ UNCHANGED filtered

\* future.result() outside any try: a raising worker ends process_emails
CollectRaising(i) ==
    /\ pc = "collect"
    /\ futures[i].state = "finished"
    /\ futures' = [futures EXCEPT ![i].state = "yielded"]
    /\ processed_attachments' =
           IF ~futures[i].raised /\ futures[i].success
           THEN processed_attachments + 1 ELSE processed_attachments
    /\ log' = [log EXCEPT ![i] = Append(@, LogLine(futures[i]))]
    /\ pc' = IF futures[i].raised THEN AfterRaise ELSE pc
    /\ UNCHANGED <<call_args, call_result, config, entry, attempt, emails, imap_error,
                   idx, total_emails, emails_with_attachments, total_attachments,
                   all_attachments, today, bucket, notifications, calls, exit_code>>
    /\ UNCHANGED filtered

\* lines 548-557: as_completed yields a finished future, once
Collect(i) ==
    /\ pc = "collect"
    /\ futures[i].state = "finished"
    /\ futures' = [futures EXCEPT ![i].state = "yielded"]
    /\ processed_attachments' =
           IF ~futures[i].raised /\ futures[i].success
           THEN processed_attachments + 1 ELSE processed_attachments
    /\ log' = [log EXCEPT ![i] = Append(@, LogLine(futures[i]))]
    /\ UNCHANGED <<call_args, call_result, config, entry, pc, attempt, emails, imap_error, idx, total_emails,
                   emails_with_attachments, total_attachments, all_attachments,
                   today, bucket, notifications, calls, exit_code>>
    /\ UNCHANGED filtered

\* the pool is left without a join, once every item has been taken up
PoolDoneNoJoin ==
    /\ pc = "collect"
    /\ \A i \in DOMAIN futures : futures[i].state # "pending"
    /\ pc' = "summary"
    /\ UNCHANGED <<call_args, call_result, config, entry, attempt, emails, imap_error,
                   idx, total_emails, emails_with_attachments, total_attachments,
                   processed_attachments, all_attachments, futures, today, bucket,
                   notifications, calls, log, exit_code>>
    /\ UNCHANGED filtered

\* the pool returns as soon as one future has been handled
PoolDoneEarly ==
    /\ pc = "collect"
    /\ \E i \in DOMAIN futures : futures[i].state = "yielded"
    /\ pc' = "summary"
    /\ UNCHANGED <<call_args, call_result, config, entry, attempt, emails, imap_error,
                   idx, total_emails, emails_with_attachments, total_attachments,
                   processed_attachments, all_attachments, futures, today, bucket,
                   notifications, calls, log, exit_code>>
    /\ UNCHANGED filtered

\* line 557 -> 560: as_completed is used up and the with block joins the pool
PoolDone ==
    /\ pc = "collect"
    /\ \A i \in DOMAIN futures : futures[i].state = "yielded"
    /\ pc' = "summary"
    /\ UNCHANGED <<call_args, call_result, config, entry, attempt, emails, imap_error, idx, total_emails,
                   emails_with_attachments, total_attachments, processed_attachments,
                   all_attachments, futures, today, bucket, notifications, calls, log,
                   exit_code>>
    /\ UNCHANGED filtered

-----------------------------------------------------------------------------
(* send_notification *)

\* line 589: the early return of send_notification
NoSink(cfg) == cfg.notification_email = "" \/ cfg.email_api_key = ""

\* "success" as soon as anything was processed
ReportLenient(processed, total, with_attachments, n_emails) ==
    [ status    |-> IF processed > 0 \/ total = 0 THEN "success" ELSE "partial",
      warning   |-> n_emails > 0 /\ with_attachments = 0,
      emails    |-> n_emails,
      with      |-> with_attachments,
      total     |-> total,
      processed |-> processed,
      failed    |-> total - processed ]

\* lines 599-623: the message built for sg.send
Report(processed, total, with_attachments, n_emails) ==
    [ status    |-> IF processed = total THEN "success" ELSE "partial",
      warning   |-> n_emails > 0 /\ with_attachments = 0,
      emails    |-> n_emails,
      with      |-> with_attachments,
      total     |-> total,
      processed |-> processed,
      failed    |-> total - processed ]

\* lines 594-633: the messages handed to sg.send after one call; an error
\* building the client leaves before sg.send, every error is only logged
send_notification(sent, cfg, processed, total, with_attachments, n_emails, outcome) ==
    IF NoSink(cfg) \/ outcome = "client_error"
    THEN sent
    ELSE Append(sent, [report |-> Report(processed, total, with_attachments, n_emails),
                       status_code |-> CASE outcome = "accepted" -> Accepted
                                         [] outcome = "rejected" -> 500
                                         [] OTHER -> 0])

\* an error of the SendGrid client leaves process_emails as a fault
SummaryEscalating ==
    /\ pc = "summary"
    /\ IF config.enable_notifications
       THEN /\ \E outcome \in NotifyOutcomes :
                  /\ notifications' =
                         send_notification(notifications, config, processed_attachments,
                                           total_attachments, emails_with_attachments,
                                           total_emails, outcome)
                  /\ IF ~NoSink(config) /\ outcome \in {"client_error", "send_error"}
                     THEN /\ pc' = AfterRaise
                          /\ calls' = [calls EXCEPT !.send_notification = @ + 1,
                                                    !.sendgrid = @ + 1,
                                                    !.raised = @ + 1]
                     ELSE /\ pc' = AfterReturn
                          /\ calls' = [calls EXCEPT
                                 !.send_notification = @ + 1,
                                 !.sendgrid = IF NoSink(config) THEN @ ELSE @ + 1]
       ELSE /\ pc' = AfterReturn
            /\ UNCHANGED <<calls, notifications>>
    /\ UNCHANGED <<call_args, call_result, config, entry, attempt, emails, imap_error,
                   idx, total_emails, emails_with_attachments, total_attachments,
                   processed_attachments, all_attachments, futures, today, bucket, log,
                   exit_code>>
    /\ UNCHANGED filtered

\* the notification is sent only when every attachment was processed
SummaryOnlyOnSuccess ==
    /\ pc = "summary"
    /\ IF config.enable_notifications /\ processed_attachments = total_attachments
       THEN /\ calls' = [calls EXCEPT !.send_notification = @ + 1,
                                      !.sendgrid = IF NoSink(config) THEN @ ELSE @ + 1]
            /\ \E outcome \in NotifyOutcomes :
                  notifications' =
                      send_notification(notifications, config, processed_attachments,
                                        total_attachments, emails_with_attachments,
                                        total_emails, outcome)
       ELSE UNCHANGED <<calls, notifications>>
    /\ pc' = AfterReturn
    /\ UNCHANGED <<call_args, call_result, config, entry, attempt, emails, imap_error,
                   idx, total_emails, emails_with_attachments, total_attachments,
                   processed_attachments, all_attachments, futures, today, bucket, log,
                   exit_code>>
    /\ UNCHANGED filtered

\* lines 560-573: the summary is logged, the notification sent if enabled, and
\* process_emails returns
Summary ==
    /\ pc = "summary"
    /\ IF config.enable_notifications
       THEN /\ calls' = [calls EXCEPT !.send_notification = @ + 1,
                                      !.sendgrid = IF NoSink(config) THEN @ ELSE @ + 1]
            /\ \E outcome \in NotifyOutcomes :
                  notifications' =
                      send_notification(notifications, config, processed_attachments,
                                        total_attachments, emails_with_attachments,
                                        total_emails, outcome)
       ELSE UNCHANGED <<calls, notifications>>
    /\ pc' = AfterReturn
    /\ UNCHANGED <<call_args, call_result, config, entry, attempt, emails, imap_error, idx, total_emails,
                   emails_with_attachments, total_attachments, processed_attachments,
                   all_attachments, futures, today, bucket, log, exit_code>>
    /\ UNCHANGED filtered

-----------------------------------------------------------------------------
(* The program *)

Next ==
    \/ RetryLoop
    \/ RetrySleep
    \/ RetryExhausted
    \/ MainExit
    \/ Fetch
    \/ ScanEmail
    \/ StartPool
    \/ Submit
    \/ \E i \in DOMAIN futures : WorkerStart(i)
    \/ \E i \in DOMAIN futures : WorkerPath(i)
    \/ \E i \in DOMAIN futures : WorkerWrite(i)
    \/ \E i \in DOMAIN futures : WorkerFinish(i)
    \/ Midnight
    \/ \E i \in DOMAIN futures : Collect(i)
    \/ PoolDone
    \/ Summary

Spec == Init /\ [][Next]_vars

\* the runs of main looked at for the end of the retry loop: one worker at
\* most, no notification
RetryInit ==
    /\ Init
    /\ entry = "main"
    /\ config.max_workers <= 1
    /\ ~config.enable_notifications
    /\ config.attachment_types = <<<<"p">>>>

\* every call made is run to its end: a step that can be taken is taken
FairSpec == RetryInit /\ [][Next]_vars /\ WF_vars(Next)

-----------------------------------------------------------------------------
(* filter_attachments called on its own, over every short filename *)

NameChars == {"a", "p", "P", ".", " "}
FileNames == SeqsUpTo(NameChars, MaxNameLen)

\* values of ATTACHMENT_TYPES: "p", "p,a", "", "p,", "P", " p"
TypeSettings ==
    { <<"p">>, <<"p", ",", "a">>, <<>>, <<"p", ",">>, <<"P">>, <<" ", "p">> }

\* values of MAX_ATTACHMENT_SIZE_MB (25 is the default)
SizeSettings == {0, 1, 25}

Sizes == {0} \cup {mb * BytesPerMb + d : mb \in SizeSettings, d \in {0, 1}}

FilterEnvironments ==
    [ ATTACHMENT_TYPES       : TypeSettings,
      MAX_ATTACHMENT_SIZE_MB : SizeSettings,
      MAX_WORKERS            : {1},
      RETRY_ATTEMPTS         : {DefaultRetryAttempts},
      NOTIFICATION_EMAIL     : {""},
      ENABLE_NOTIFICATIONS   : {"false"} ]

FilterInputs ==
    {<<Attachment(n, sz, "eA==")>> : n \in FileNames, sz \in Sizes}
    \cup SeqsUpTo({AttReport, AttUpper, AttImage, AttHuge, AttBare}, MaxAttachments)

FilterInit ==
    /\ call_args \in FilterInputs
    /\ call_result = <<>>
    /\ filtered = <<>>
    /\ \E env \in FilterEnvironments : config = load_config(env)
    /\ entry = "filter"
    /\ pc = "call"
    /\ attempt = 0
    /\ emails = <<>>
    /\ imap_error = FALSE
    /\ idx = 1
    /\ total_emails = 0
    /\ emails_with_attachments = 0
    /\ total_attachments = 0
    /\ processed_attachments = 0
    /\ all_attachments = <<>>
    /\ futures = NoFuture
    /\ today = 0
    /\ bucket = <<>>
    /\ notifications = <<>>
    /\ calls = ZeroCalls
    /\ log = <<>>
    /\ exit_code = -1

\* where the caller is while a call of filter_attachments runs: in its first
\* call, in a second call with the same list, in a call with the list the
\* calls before returned
FilterLoops == {"loop", "loop_again", "loop_result"}

\* the list the running call was handed: the caller's own list, not a copy
FilterArgument == IF pc = "loop_result" THEN call_result ELSE call_args

\* lines 348-349: the call begins with a fresh list
FilterEnter(at, loop) ==
    /\ pc = at
    /\ filtered' = <<>>
    /\ idx' = 1
    /\ pc' = loop
    /\ UNCHANGED <<call_args, call_result, config, entry, attempt, emails, imap_error,
                   total_emails, emails_with_attachments, total_attachments,
                   processed_attachments, all_attachments, futures, today, bucket,
                   notifications, calls, log, exit_code>>

\* the caller's list is handed to filter_attachments
FilterCall == FilterEnter("call", "loop")

\* the same list is handed to filter_attachments a second time
FilterRepeat == FilterEnter("called", "loop_again")

\* the returned list is handed to filter_attachments again
FilterRefilter == FilterEnter("repeated", "loop_result")

\* a skipped attachment is taken out of the list that was handed in, and the
\* loop goes on with the next position
FilterStepRemoving ==
    /\ pc \in FilterLoops
    /\ idx <= Len(FilterArgument)
    /\ LET attachment == FilterArgument[idx]
           shorter == [j \in 1..(Len(FilterArgument) - 1) |->
                          IF j < idx THEN FilterArgument[j] ELSE FilterArgument[j + 1]]
       IN  IF ~TypeAllowed(attachment, config) \/ TooLarge(attachment, config)
           THEN /\ log' = Append(log, IF ~TypeAllowed(attachment, config)
                                      THEN "unsupported type" ELSE "too large")
                /\ IF pc = "loop_result"
                   THEN call_result' = shorter /\ UNCHANGED call_args
                   ELSE call_args' = shorter /\ UNCHANGED call_result
                /\ UNCHANGED filtered
           ELSE /\ filtered' = Append(filtered, attachment)
                /\ UNCHANGED <<call_args, call_result, log>>
    /\ idx' = idx + 1
    /\ UNCHANGED <<config, entry, pc, attempt, emails, imap_error,
                   total_emails, emails_with_attachments, total_attachments,
                   processed_attachments, all_attachments, futures, today, bucket,
                   notifications, calls, exit_code>>

\* lines 351-365: one pass of the loop: the attachment is skipped with a
\* warning (type, then size) or appended to the fresh list
FilterStep ==
    /\ pc \in FilterLoops
    /\ idx <= Len(FilterArgument)
    /\ LET attachment == FilterArgument[idx]
       IN  IF ~TypeAllowed(attachment, config)
           THEN log' = Append(log, "unsupported type") /\ UNCHANGED filtered
           ELSE IF TooLarge(attachment, config)
           THEN log' = Append(log, "too large") /\ UNCHANGED filtered
           ELSE filtered' = Append(filtered, attachment) /\ UNCHANGED log
    /\ idx' = idx + 1
    /\ UNCHANGED <<call_args, call_result, config, entry, pc, attempt, emails, imap_error,
                   total_emails, emails_with_attachments, total_attachments,
                   processed_attachments, all_attachments, futures, today, bucket,
                   notifications, calls, exit_code>>

\* line 367: the built list is returned and the caller keeps it
FilterReturn ==
    /\ pc \in FilterLoops
    /\ idx > Len(FilterArgument)
    /\ call_result' = filtered
    /\ pc' = CASE pc = "loop" -> "called"
              [] pc = "loop_again" -> "repeated"
              [] OTHER -> "refiltered"
    /\ UNCHANGED <<call_args, filtered, config, entry, attempt, emails, imap_error, idx,
                   total_emails, emails_with_attachments, total_attachments,
                   processed_attachments, all_attachments, futures, today, bucket,
                   notifications, calls, log, exit_code>>

FilterNext ==
    \/ FilterCall
    \/ FilterRepeat
    \/ FilterRefilter
    \/ FilterStep
    \/ FilterReturn

FilterSpec == FilterInit /\ [][FilterNext]_vars

-----------------------------------------------------------------------------
(* Properties: the pool *)

\* the pool of the current attempt has returned to process_emails
PoolReturned == futures # NoFuture /\ ~PoolOpen

Succeeded == {i \in DOMAIN futures : futures[i].fault = "none"}

\* C1: every context submitted to the pool is accounted exactly once by the time
\* the pool returns (one log line of the collection loop, a success or a
\* failure), also a context whose worker call raised; none is accounted twice
\* at any moment, for every work list and worker count >= 1.
C1_ExactlyOneOutcome ==
    /\ futures # NoFuture =>
          /\ config.max_workers >= 1
          /\ DOMAIN futures \subseteq DOMAIN all_attachments
          /\ pc # "submit" => DOMAIN futures = DOMAIN all_attachments
          /\ DOMAIN log = DOMAIN all_attachments
          /\ \A i \in DOMAIN log :
                /\ Len(log[i]) <= 1
                /\ \A k \in DOMAIN log[i] :
                      log[i][k] \in {"completed", "failed", "unexpected"}
    /\ PoolReturned => \A i \in DOMAIN log : Len(log[i]) = 1

\* the pool returned with one worker and two contexts, one of which raised
C1_Witness ==
    /\ PoolReturned
    /\ config.max_workers = 1
    /\ Len(all_attachments) = 2
    /\ \E i \in DOMAIN futures : futures[i].raised /\ log[i] = <<"unexpected">>

\* C2: fault isolation: when the pool has returned, an item whose upload (or
\* worker call) failed is recorded as exactly one failure and an item whose
\* upload succeeded as exactly one success, whatever happened to its siblings
\* and in whatever order the workers ran; the processed count is the number of
\* items that succeeded.
C2_FaultIsolation ==
    PoolReturned =>
       /\ \A i \in DOMAIN futures :
             IF futures[i].fault = "none"
             THEN log[i] = <<"completed">>
             ELSE log[i] \in {<<"failed">>, <<"unexpected">>}
       /\ processed_attachments = Cardinality(Succeeded)

\* X failed in its upload, Y succeeded, in the same batch
C2_Witness ==
    /\ PoolReturned
    /\ \E x, y \in DOMAIN futures :
          /\ futures[x].fault = "upload_error" /\ log[x] = <<"failed">>
          /\ futures[y].fault = "none" /\ log[y] = <<"completed">>

-----------------------------------------------------------------------------
(* Properties: run_with_retry *)

\* C3: when run_with_retry has returned after a successful attempt that
\* followed k faulting attempts, process_emails was called exactly k+1 times
\* and the delay exactly k times, with k < max_attempts; and at no time is there
\* an attempt or a delay that does not follow a faulting attempt (none after
\* the success).
C3_RetrySuccess ==
    /\ pc = "success" =>
          /\ calls.raised < config.retry_attempts
          /\ attempt = calls.raised + 1
          /\ calls.process_emails = calls.raised + 1
          /\ calls.sleep = calls.raised
    /\ entry = "main" =>
          /\ calls.process_emails <= calls.raised + 1
          /\ calls.sleep <= calls.raised

\* max_attempts = 3, faults on attempts 1 and 2, success with two delays
C3_Witness ==
    /\ pc = "success"
    /\ config.retry_attempts = 3
    /\ calls.raised = 2
    /\ calls.process_emails = 3
    /\ calls.sleep = 2

\* C4: when every attempt faults, run_with_retry ends Exhausted after exactly
\* max_attempts calls of process_emails and max_attempts - 1 delays; there are
\* never more calls than max_attempts; main exits non-zero there, and Exhausted
\* is the only state from which it does.
C4_RetryExhausted ==
    /\ pc = "exhausted" =>
          /\ config.retry_attempts >= 1
          /\ calls.raised = config.retry_attempts
          /\ calls.process_emails = config.retry_attempts
          /\ calls.sleep = config.retry_attempts - 1
          /\ exit_code \in {-1, 1}
    /\ entry = "main" /\ config.retry_attempts >= 0 =>
          calls.process_emails <= config.retry_attempts
    /\ exit_code = 1 => pc = "exhausted"
    /\ pc \in {"success", "fell_through"} => exit_code \in {-1, 0}

\* max_attempts = 2, both attempts faulted, main has exited with 1
C4_Witness ==
    /\ pc = "exhausted"
    /\ config.retry_attempts = 2
    /\ calls.process_emails = 2
    /\ calls.sleep = 1
    /\ exit_code = 1

\* C5: an attempt whose IMAP session failed is never the attempt that
\* run_with_retry reports as successful (it counts as failed and is retried).
C5_FetchFaultRetried == ~(imap_error /\ pc = "success")

-----------------------------------------------------------------------------
(* Properties: the notification *)

\* notifications enabled, recipient and API key present
SinkConfigured ==
    /\ config.enable_notifications
    /\ config.notification_email # ""
    /\ config.email_api_key # ""

ReturnedNormally == pc \in {"success", "test_returned"}

\* C6 as stated: with a sink configured, every run of process_emails that
\* returns without fault has made exactly one notification attempt, the run
\* whose fetch returned no messages included.
C6_OneNotificationPerRun ==
    ReturnedNormally /\ SinkConfigured => calls.sendgrid = 1

\* C6, amended: with a sink configured, a run that returns without fault has
\* made exactly one notification attempt when its fetch returned at least one
\* message (whether or not attachments failed) and none when the fetch
\* returned no message; there is never more than one, and at most one message
\* is handed to the sender.
C6_OneNotificationPerNonEmptyRun ==
    /\ ReturnedNormally /\ SinkConfigured =>
          calls.sendgrid = IF total_emails > 0 THEN 1 ELSE 0
    /\ calls.sendgrid <= 1
    /\ Len(notifications) <= calls.sendgrid

\* every attachment of the run failed and the one notification went out
C6_Witness ==
    /\ pc = "success"
    /\ SinkConfigured
    /\ total_attachments = 2
    /\ processed_attachments = 0
    /\ calls.sendgrid = 1
    /\ Len(notifications) = 1
    /\ notifications[1].report.status = "partial"

-----------------------------------------------------------------------------
(* Properties: process_single_attachment *)

Done == {i \in DOMAIN futures : futures[i].state \in {"finished", "yielded"}}

\* the object of item i is in the bucket
Stored(i) ==
    \E d \in Days :
       BlobPath(d, all_attachments[i].attachment.filename) \in DOMAIN bucket

\* C9 as stated: a failure in the parse step or in the upload step gives a
\* returned result with success = False whose error is the description of the
\* underlying error; success = True only when the upload succeeded.
C9_FailureCarriesDescription ==
    \A i \in Done :
       /\ futures[i].fault \in {"parse_error", "upload_error"} =>
             /\ ~futures[i].raised
             /\ ~futures[i].success
             /\ futures[i].error = Describe(futures[i].fault)
       /\ futures[i].success => futures[i].fault = "none" /\ Stored(i)

\* C9, amended: a failure in the parse step or in the upload step never raises
\* out of process_single_attachment and gives success = False; the error field
\* is the description of the underlying error for a parse failure and the fixed
\* text "Upload failed" for an upload failure; success = True (with no error)
\* only when the upload succeeded.
C9_FailureIsReturned ==
    \A i \in Done :
       /\ futures[i].fault \in {"parse_error", "upload_error"} =>
             /\ ~futures[i].raised
             /\ ~futures[i].success
             /\ futures[i].error = IF futures[i].fault = "parse_error"
                                   THEN Describe("parse_error") ELSE UploadFailed
       /\ futures[i].success =>
             /\ futures[i].fault = "none"
             /\ futures[i].error = NoError
             /\ Stored(i)

\* one item failed in its upload, another in its parse step
C9_Witness ==
    \E i, j \in Done :
       /\ futures[i].fault = "upload_error" /\ futures[i].error = UploadFailed
       /\ futures[j].fault = "parse_error" /\ ~futures[j].success

\* C10: an attempt whose workers ran never ends with a fault: process_emails
\* raises only before any worker exists, so a run with failed attachments
\* returns normally and run_with_retry ends in Success without another
\* attempt; no item is run more than once in an attempt.
C10_WorkerFaultsNotRetried ==
    /\ pc \in {"failed", "exhausted", "test_raised"} => futures = NoFuture
    /\ \A i \in DOMAIN futures : futures[i].runs <= 1
    /\ PoolReturned /\ pc # "summary" =>
          /\ ReturnedNormally
          /\ \A i \in DOMAIN futures : futures[i].runs = 1
          /\ entry = "main" => calls.process_emails = attempt /\ calls.sleep = attempt - 1

\* every attachment failed, one of them by raising, and the run is a success
C10_Witness ==
    /\ pc = "success"
    /\ Len(futures) = 2
    /\ processed_attachments = 0
    /\ \E i \in DOMAIN futures : futures[i].raised
    /\ \E i \in DOMAIN futures : futures[i].fault = "upload_error"

-----------------------------------------------------------------------------
(* Properties: filter_attachments *)

DotPositions(name) == {i \in DOMAIN name : name[i] = "."}

\* the text after the last '.' of a name (empty when the name has no '.')
TextAfterLastDot(name) ==
    IF DotPositions(name) = {} THEN <<>>
    ELSE LET k == CHOOSE i \in DotPositions(name) : \A j \in DotPositions(name) : j <= i
         IN  [n \in 1..(Len(name) - k) |-> name[k + n]]

AllowedTypes(cfg) == {cfg.attachment_types[i] : i \in DOMAIN cfg.attachment_types}

Ceiling(cfg) == cfg.max_attachment_size_mb * BytesPerMb

Returned(a) == \E j \in DOMAIN call_result : call_result[j] = a

\* C7: filter_attachments keeps an attachment if and only if the lowercase of
\* the text after the last '.' of its filename (the empty text for a name
\* without '.') is one of the allowed types and its size is at most
\* max_attachment_size_mb * 1048576; with an allowed type, size = ceiling is
\* kept and size = ceiling + 1 is not.
C7_FilterKeepsIff ==
    pc = "called" =>
       \A i \in DOMAIN call_args :
          LET a == call_args[i]
              allowed == Lower(TextAfterLastDot(a.filename)) \in AllowedTypes(config)
          IN  /\ Returned(a) <=> (allowed /\ a.size <= Ceiling(config))
              /\ allowed /\ a.size = Ceiling(config) => Returned(a)
              /\ a.size = Ceiling(config) + 1 => ~Returned(a)

\* one attachment exactly at the ceiling (kept), one a byte above (dropped)
C7_Witness ==
    /\ pc = "called"
    /\ Len(call_args) = 2
    /\ call_args[1].size = Ceiling(config)
    /\ call_args[2].size = Ceiling(config) + 1
    /\ Lower(TextAfterLastDot(call_args[2].filename)) \in AllowedTypes(config)
    /\ call_result = <<call_args[1]>>

\* a filename without '.', or with nothing after its last '.'
NoExtension(name) == DotPositions(name) = {} \/ TextAfterLastDot(name) = <<>>

\* C8: an attachment whose filename has no extension is rejected, whatever its
\* size and whatever the allowed-type list holds.
C8_NoExtensionRejected ==
    pc = "called" =>
       \A i \in DOMAIN call_args :
          NoExtension(call_args[i].filename) => ~Returned(call_args[i])

-----------------------------------------------------------------------------
(* Properties: the counters of a run *)

\* the attachments of the first n messages of a batch, by position
AttachmentsOf(ms, n) ==
    UNION {{<<m, k>> : k \in DOMAIN ms[m].attachments} : m \in 1..n}

\* what the documentation of the filter asks of an attachment
Eligible(a) ==
    /\ Lower(TextAfterLastDot(a.filename)) \in AllowedTypes(config)
    /\ a.size <= Ceiling(config)

EligibleOf(ms, n) == {p \in AttachmentsOf(ms, n) : Eligible(ms[p[1]].attachments[p[2]])}

\* the messages of the batch the loop has been through
Scanned == IF idx - 1 <= Len(emails) THEN idx - 1 ELSE Len(emails)

\* C11: at every moment of a run processed_attachments <= total_attachments
\* (the eligible ones) <= the attachments seen in the messages read so far
\* <= the attachments of the whole fetched batch, and the same ordering holds
\* for the numbers of every notification sent.
C11_CountsOrdered ==
    /\ processed_attachments <= total_attachments
    /\ total_attachments <= Cardinality(AttachmentsOf(emails, Scanned))
    /\ Cardinality(AttachmentsOf(emails, Scanned)) <=
          Cardinality(AttachmentsOf(emails, Len(emails)))
    /\ \A k \in DOMAIN notifications :
          /\ notifications[k].report.processed <= notifications[k].report.total
          /\ notifications[k].report.total <=
                Cardinality(AttachmentsOf(emails, Len(emails)))

\* a reported run where the three numbers differ: 1 processed, 2 eligible, 3 seen
C11_Witness ==
    /\ ReturnedNormally
    /\ Len(notifications) = 1
    /\ notifications[1].report.processed = 1
    /\ notifications[1].report.total = 2
    /\ processed_attachments = 1
    /\ total_attachments = 2
    /\ Cardinality(AttachmentsOf(emails, Len(emails))) = 3

\* the batch of the documented example: an allowed and a disallowed
\* attachment in one message, none in the other
ExampleBatch ==
    /\ Len(emails) = 2
    /\ Len(emails[1].attachments) = 2
    /\ Eligible(emails[1].attachments[1])
    /\ ~Eligible(emails[1].attachments[2])
    /\ emails[2].attachments = <<>>

\* C12: when the pool has returned, total_emails is the number of fetched
\* messages, emails_with_attachments the number of messages with at least one
\* attachment, total_attachments the number of attachments the filter accepts
\* over all messages, processed_attachments the number of those whose worker
\* succeeded; the example batch gives 2, 1, 1, 1 when the upload succeeds.
\* (The count of eligible attachments is compared where the summary is made;
\* from there to the return the counters and the batch stay as they are.)
C12_SummaryValues ==
    /\ pc \in {"summary", "success", "test_returned"} =>
          /\ total_emails = Len(emails)
          /\ emails_with_attachments =
                Cardinality({m \in DOMAIN emails : emails[m].attachments # <<>>})
          /\ total_attachments = Len(all_attachments)
          /\ processed_attachments = Cardinality(Succeeded)
          /\ \A k \in DOMAIN notifications :
                /\ notifications[k].report.emails = total_emails
                /\ notifications[k].report.with = emails_with_attachments
                /\ notifications[k].report.total = total_attachments
                /\ notifications[k].report.processed = processed_attachments
    /\ (pc = "summary" \/ (ReturnedNormally /\ emails = <<>>)) =>
          /\ total_attachments = Cardinality(EligibleOf(emails, Len(emails)))
          /\ (ExampleBatch /\ Succeeded # {}) =>
                /\ total_emails = 2
                /\ emails_with_attachments = 1
                /\ total_attachments = 1
                /\ processed_attachments = 1

\* the example batch has been processed, its upload succeeded, and the
\* summary is being made
C12_Witness ==
    /\ pc = "summary"
    /\ ExampleBatch
    /\ Succeeded # {}
    /\ total_emails = 2
    /\ emails_with_attachments = 1
    /\ total_attachments = 1
    /\ processed_attachments = 1

\* C13: only attachments the filter accepts are submitted to a worker: every
\* item of the work list, while it is built and when the pool is done with
\* it, is an eligible attachment of the fetched batch; the pool gets items of
\* that list only, and every object in the bucket has the name of one.
C13_OnlyAcceptedSubmitted ==
    /\ pc \in {"scan", "summary"} =>
          \A i \in DOMAIN all_attachments :
             /\ Eligible(all_attachments[i].attachment)
             /\ \E m \in 1..Scanned :
                   InList(all_attachments[i].attachment, emails[m].attachments)
    /\ Len(futures) <= Len(all_attachments)
    /\ \A path \in DOMAIN bucket :
          \E i \in DOMAIN futures, d \in Days :
             path = BlobPath(d, all_attachments[i].attachment.filename)

\* a batch with a rejected attachment has been through the pool, and an
\* object was stored
C13_Witness ==
    /\ ReturnedNormally
    /\ DOMAIN bucket # {}
    /\ \E p \in AttachmentsOf(emails, Len(emails)) :
          ~Eligible(emails[p[1]].attachments[p[2]])
    /\ \A i \in DOMAIN futures : futures[i].state = "yielded"

-----------------------------------------------------------------------------
(* Properties: the notification *)

\* C14: the status of a notification is "success" exactly when every eligible
\* attachment was processed and "partial" otherwise, and it carries the
\* no-attachments warning exactly when at least one message was fetched and
\* no message had attachments.
C14_StatusAndWarning ==
    \A k \in DOMAIN notifications :
       LET r == notifications[k].report
       IN  /\ r.status \in {"success", "partial"}
           /\ r.status = "success" <=> processed_attachments = total_attachments
           /\ r.status = "success" <=>
                 Cardinality(Succeeded) = Cardinality(EligibleOf(emails, Len(emails)))
           /\ r.warning <=>
                 /\ Len(emails) >= 1
                 /\ \A m \in DOMAIN emails : emails[m].attachments = <<>>

\* a batch of messages without attachments was reported, with the warning
C14_Witness ==
    /\ Len(notifications) = 1
    /\ notifications[1].report.warning
    /\ notifications[1].report.status = "success"
    /\ Len(emails) >= 1

\* the SendGrid client was used and failed: it could not be built, the send
\* raised, or the answer was not 202
NotificationFailed ==
    /\ calls.sendgrid >= 1
    /\ \/ notifications = <<>>
       \/ notifications[Len(notifications)].status_code # Accepted

\* C15: a failure of the notification never becomes a failure of the run:
\* process_emails has returned normally, the counters are those of the pool,
\* and run_with_retry neither counts a failed attempt nor sleeps for it.
C15_NotificationFaultHarmless ==
    NotificationFailed =>
       /\ ReturnedNormally
       /\ calls.sendgrid = 1
       /\ exit_code # 1
       /\ total_emails = Len(emails)
       /\ total_attachments = Len(all_attachments)
       /\ processed_attachments = Cardinality(Succeeded)
       /\ entry = "main" =>
             /\ calls.process_emails = attempt
             /\ calls.raised = attempt - 1
             /\ calls.sleep = attempt - 1
       /\ entry = "test" => calls.raised = 0

\* the client could not be built, after a pool that processed an attachment
C15_Witness ==
    /\ pc = "success"
    /\ calls.sendgrid = 1
    /\ notifications = <<>>
    /\ processed_attachments = 1

-----------------------------------------------------------------------------
(* Properties: the pool and its callers *)

\* C16: the pool blocks its caller until every submitted item has an outcome:
\* outside the with block (the submissions and the collection loop) no worker
\* is running and every future has been handled, so the summary, the
\* notification, the return of process_emails and the next attempt all come
\* after the last worker.
C16_PoolBlocks ==
    /\ ~PoolOpen =>
          /\ Running = {}
          /\ \A i \in DOMAIN futures : futures[i].state = "yielded"
          /\ futures # NoFuture => Len(futures) = Len(all_attachments)
    /\ (calls.send_notification >= 1 \/ notifications # <<>>) =>
          \A i \in DOMAIN all_attachments :
             i \in DOMAIN futures /\ futures[i].state = "yielded"

\* two items went through a pool of one worker, and the summary is next
C16_Witness ==
    /\ pc = "summary"
    /\ config.max_workers = 1
    /\ Len(futures) = 2
    /\ \A i \in DOMAIN futures : futures[i].state = "yielded"

\* C17: at every moment the number of process_single_attachment calls that
\* are executing is at most max_workers, however many items were submitted.
C17_AtMostMaxWorkers == Cardinality(Running) <= config.max_workers

\* more items than workers: every worker is busy and an item is waiting
C17_Witness ==
    /\ pc = "collect"
    /\ Len(futures) > config.max_workers
    /\ Cardinality(Running) = config.max_workers
    /\ \E i \in DOMAIN futures : futures[i].state = "pending"

-----------------------------------------------------------------------------
(* Properties: the attempts of run_with_retry *)

\* C18: fetch_emails is called exactly once per attempt; an empty fetch
\* result is a normal return of process_emails (never a fault), with no
\* worker, no upload and every counter at zero, and run_with_retry ends in
\* success with that attempt.
C18_EmptyFetchReturns ==
    /\ calls.fetch_emails =
          IF pc = "fetch" THEN calls.process_emails - 1 ELSE calls.process_emails
    /\ pc \in {"failed", "test_raised"} => emails # <<>>
    /\ (ReturnedNormally /\ emails = <<>>) =>
          /\ futures = NoFuture
          /\ all_attachments = <<>>
          /\ DOMAIN bucket = {}
          /\ total_emails = 0
          /\ emails_with_attachments = 0
          /\ total_attachments = 0
          /\ processed_attachments = 0
          /\ exit_code # 1
          /\ entry = "main" =>
                /\ pc = "success"
                /\ calls.process_emails = attempt
                /\ calls.fetch_emails = attempt

\* the first attempt fetched nothing and main has exited with status 0
C18_Witness ==
    /\ pc = "success"
    /\ emails = <<>>
    /\ attempt = 1
    /\ calls.fetch_emails = 1
    /\ calls.raised = 0
    /\ exit_code = 0

\* C19: every attempt fetches again and starts from nothing: right after the
\* fetch the counters are zero and the work list and the pool are empty,
\* whatever the attempts before left; the work list built from then on is the
\* eligible attachments of the messages of the fresh batch read so far, and
\* the pool gets every item of the list built from the whole batch.
C19_NoPartialCredit ==
    /\ (pc = "scan" /\ idx = 1) =>
          /\ emails_with_attachments = 0
          /\ total_attachments = 0
          /\ processed_attachments = 0
          /\ all_attachments = <<>>
          /\ futures = NoFuture
          /\ calls.fetch_emails = calls.process_emails
          /\ entry = "main" => calls.fetch_emails = attempt
    /\ pc = "scan" =>
          /\ Len(all_attachments) = Cardinality(EligibleOf(emails, Scanned))
          /\ total_attachments = Len(all_attachments)
    /\ PoolOpen =>
          /\ Scanned = Len(emails)
          /\ Len(futures) <= Len(all_attachments)
          /\ total_attachments = Len(all_attachments)
    /\ pc = "collect" => Len(futures) = Len(all_attachments)

\* the second attempt has fetched a batch, after a first attempt that failed
\* with a work list of its own
C19_Witness ==
    /\ entry = "main"
    /\ attempt = 2
    /\ calls.raised = 1
    /\ calls.fetch_emails = 2
    /\ pc = "scan"
    /\ idx = 1
    /\ emails # <<>>
    /\ all_attachments = <<>>

\* the pool of the attempt could not be built: there is work and no worker
PoolFault == config.max_workers <= 0 /\ all_attachments # <<>> /\ pc # "scan"

\* C20: a fault raised in process_emails outside the workers is re-raised to
\* its caller and never swallowed: the attempt does not return normally and
\* run_with_retry counts it as failed.
C20_FaultReraised ==
    /\ PoolFault => pc \in {"failed", "exhausted", "loop", "fetch", "test_raised"}
    /\ entry = "main" =>
          /\ pc \in {"failed", "exhausted", "loop"} => calls.raised = attempt
          /\ pc \in {"fetch", "scan", "submit", "collect", "summary", "success"} =>
                calls.raised = attempt - 1
          /\ pc = "fell_through" => calls.raised = 0
    /\ entry = "test" => (calls.raised = 1 <=> pc = "test_raised") /\ calls.raised <= 1

\* the first attempt built a work list, faulted, and is counted as failed
C20_Witness ==
    /\ pc = "failed"
    /\ attempt = 1
    /\ calls.raised = 1
    /\ PoolFault

-----------------------------------------------------------------------------
(* Properties: counting and the work list *)

\* the futures the collection loop has handled and found a success
CountedSuccesses ==
    {i \in DOMAIN futures :
        futures[i].state = "yielded" /\ futures[i].success /\ ~futures[i].raised}

\* C21: the processed count does not depend on the order in which workers
\* complete: at every moment it is the number of handled futures whose worker
\* succeeded (no increment lost, none made twice), and when the pool has
\* returned it is the number of items whose worker met no failure, whatever
\* the schedule was.
C21_CountIsOrderIndependent ==
    /\ futures # NoFuture => processed_attachments = Cardinality(CountedSuccesses)
    /\ PoolReturned => processed_attachments = Cardinality(Succeeded)

\* the second item was completed and counted while the first is still running
C21_Witness ==
    /\ pc = "collect"
    /\ Len(futures) = 2
    /\ futures[1].state = "running"
    /\ futures[2].state = "yielded"
    /\ futures[2].success
    /\ processed_attachments = 1

\* C22: the pool is built at most once per call of process_emails and only
\* when every fetched message has been through the filter: while messages
\* are read no future exists, the pool holds one future per item of the
\* complete work list (the items of all messages together), and no item is
\* run twice.
C22_OnePoolAfterScan ==
    /\ pc = "scan" => futures = NoFuture
    /\ futures # NoFuture =>
          /\ idx > Len(emails)
          /\ DOMAIN futures \subseteq DOMAIN all_attachments
          /\ pc # "submit" => DOMAIN futures = DOMAIN all_attachments
          /\ Len(all_attachments) = total_attachments
          /\ \A i \in DOMAIN futures : futures[i].runs <= 1
    /\ entry = "main" /\ futures # NoFuture => calls.process_emails = attempt

\* items of two different messages are in one pool, a worker is running
C22_Witness ==
    /\ pc = "collect"
    /\ Len(emails) = 2
    /\ Len(futures) = 2
    /\ all_attachments[1].email_subject # all_attachments[2].email_subject
    /\ Running # {}

\* the counters and the work list, as one loop pass finds and leaves them
MessageCounts == <<emails_with_attachments, total_attachments, all_attachments>>

\* C23: a message without attachments is counted in total_emails and leaves
\* emails_with_attachments, the eligible count and the work list as they are;
\* a message with at least one attachment adds exactly one to
\* emails_with_attachments, also when the filter rejects all its attachments.
C23_PerMessageCounting ==
    [][(pc = "scan" /\ idx <= Len(emails) /\ idx' = idx + 1) =>
          /\ total_emails' = Len(emails) /\ total_emails' = total_emails
          /\ emails[idx].attachments = <<>> => MessageCounts' = MessageCounts
          /\ emails[idx].attachments # <<>> =>
                /\ emails_with_attachments' = emails_with_attachments + 1
                /\ Len(all_attachments') - Len(all_attachments) =
                      total_attachments' - total_attachments
                /\ Len(all_attachments') - Len(all_attachments) <=
                      Len(emails[idx].attachments)]_vars

\* one message was read: it has attachments and the filter rejected them all
C23_Witness ==
    /\ pc = "scan"
    /\ idx = 2
    /\ emails[1].attachments # <<>>
    /\ emails_with_attachments = 1
    /\ total_attachments = 0
    /\ all_attachments = <<>>

\* messages were fetched and read, and the work list is empty
EmptyWorkList ==
    /\ emails # <<>>
    /\ all_attachments = <<>>
    /\ pc \notin {"fetch", "scan"}

\* C24: with an empty work list no pool and no worker is created and nothing
\* is uploaded (so the worker count is never looked at), and the run
\* completes with processed = eligible = 0.
C24_EmptyWorkListNoPool ==
    EmptyWorkList =>
       /\ pc \in {"summary", "success", "test_returned"}
       /\ futures = NoFuture
       /\ DOMAIN bucket = {}
       /\ calls.raised = IF entry = "main" THEN attempt - 1 ELSE 0
       /\ processed_attachments = 0
       /\ total_attachments = 0
       /\ \A k \in DOMAIN notifications :
             /\ notifications[k].report.processed = 0
             /\ notifications[k].report.total = 0

\* a batch without eligible attachments, MAX_WORKERS = 0, and the run succeeded
C24_Witness ==
    /\ pc = "success"
    /\ EmptyWorkList
    /\ config.max_workers = 0
    /\ emails_with_attachments >= 1
    /\ exit_code = 0

-----------------------------------------------------------------------------
(* Properties: filter_attachments as a function *)

\* the elements of the argument that are in the result, in the argument's order
KeptInOrder(args, result) ==
    SelectSeq(args, LAMBDA a : \E j \in DOMAIN result : result[j] = a)

\* a call of filter_attachments is running and goes on
FilterRunning == pc \in FilterLoops /\ pc' \in FilterLoops

\* a call of filter_attachments returns in this step
FilterReturning == pc \in FilterLoops /\ pc' \notin FilterLoops

\* C25: filter_attachments is a pure, deterministic decision. No step of a
\* call changes the list it was handed (the caller's list, or the list an
\* earlier call returned), whatever it skips or appends. The list a call
\* returns holds the attachments of its argument that were kept, in the
\* argument's order, and depends on the argument and the policy only, not on
\* what earlier calls left behind. The second call on the same list returns
\* what the first returned, and the call on the returned list returns that
\* list unchanged.
C25_FilterIsPure ==
    [][/\ call_args' = call_args
       /\ FilterRunning => call_result' = call_result
       /\ FilterReturning =>
             /\ call_result' = KeptInOrder(FilterArgument, call_result')
             /\ call_result' = filter_attachments(FilterArgument, config)
             /\ pc \in {"loop_again", "loop_result"} => call_result' = call_result]_vars

\* a list of three attachments, the second of which is skipped, went through
\* the three calls: the first two calls each logged the skip, the call on the
\* returned list skipped nothing, and the two kept attachments are returned
\* in their order
C25_Witness ==
    /\ pc = "refiltered"
    /\ Len(call_args) = 3
    /\ call_args[1] # call_args[3]
    /\ call_result = <<call_args[1], call_args[3]>>
    /\ filtered = call_result
    /\ Len(log) = 2

-----------------------------------------------------------------------------
(* Properties: the end of run_with_retry *)

\* run_with_retry is over: it returned (after a successful attempt, or with
\* no attempt to make) or it raised after the last attempt
Ended == pc \in {"success", "fell_through", "exhausted"}

MaxAttemptsConfigured == IF config.retry_attempts > 0 THEN config.retry_attempts ELSE 0

\* C26: when every attempt terminates, run_with_retry ends, in exactly one of
\* a normal return and the fault of the last attempt, and stays there; the
\* attempt number starts at 0, goes up by one at a time, after the first
\* attempt only when the attempt before raised, and never exceeds
\* retry_attempts.
C26_RetryTerminates ==
    /\ (entry = "main") ~> Ended
    /\ [](entry = "main" =>
             /\ attempt \in 0..MaxAttemptsConfigured
             /\ calls.process_emails = attempt
             /\ pc = "exhausted" => calls.raised = attempt /\ attempt = config.retry_attempts
             /\ pc = "success" => calls.raised = attempt - 1
             /\ exit_code # -1 => Ended /\ (exit_code = 1 <=> pc = "exhausted"))
    /\ [][/\ attempt' \in {attempt, attempt + 1}
          /\ (attempt' = attempt + 1 /\ attempt > 0) =>
                calls.raised = attempt /\ calls.sleep' = attempt
          /\ Ended => pc' = pc]_vars

\* the last of several attempts raised and main has exited with status 1
C26_Witness ==
    /\ pc = "exhausted"
    /\ attempt = config.retry_attempts
    /\ attempt >= 2
    /\ calls.raised = attempt
    /\ exit_code = 1

-----------------------------------------------------------------------------
(* Properties: what is stored *)

\* the decoded payloads of the successful items with a given filename
PayloadsOf(name) ==
    {B64Decode(all_attachments[i].attachment.data) :
        i \in {j \in Done : futures[j].success /\
                             all_attachments[j].attachment.filename = name}}

\* C27: for every attachment whose outcome is a success, the object written
\* to the store holds the decoded 'data' of that attachment (of one of them,
\* when several successful attachments share the filename).
C27_PayloadPreserved ==
    \A i \in Done :
       futures[i].success =>
          \E d \in Days :
             LET path == BlobPath(d, all_attachments[i].attachment.filename)
             IN  /\ path \in DOMAIN bucket
                 /\ bucket[path] \in PayloadsOf(all_attachments[i].attachment.filename)

-----------------------------------------------------------------------------
(* Properties: RETRY_ATTEMPTS <= 0 *)

\* C28: with retry_attempts 0 or negative run_with_retry makes no attempt
\* (process_emails and with it the fetch are never called, there is no
\* delay, nothing is stored or sent) and returns normally, and main ends
\* with the status of a successful run.
C28_NoAttemptsConfigured ==
    (entry = "main" /\ config.retry_attempts <= 0) =>
       /\ pc \in {"loop", "fell_through"}
       /\ attempt = 0
       /\ calls = ZeroCalls
       /\ DOMAIN bucket = {}
       /\ notifications = <<>>
       /\ exit_code \in {-1, 0}
       /\ exit_code = 0 => pc = "fell_through"

\* RETRY_ATTEMPTS = -1: run_with_retry has returned and main exited with 0
C28_Witness ==
    /\ entry = "main"
    /\ config.retry_attempts = -1
    /\ pc = "fell_through"
    /\ calls.process_emails = 0
    /\ exit_code = 0

-----------------------------------------------------------------------------
(* Properties: storage keys *)

\* the items whose worker returned success = True
Successful == {i \in Done : futures[i].success}

NameOf(i) == all_attachments[i].attachment.filename

SuccessfulNames == {NameOf(i) : i \in Successful}

NamesDistinct == \A i, j \in Successful : NameOf(i) = NameOf(j) => i = j

\* the objects of the bucket with a given filename
ObjectsNamed(name) == {path \in DOMAIN bucket : path[2] = name}

\* C29 as stated: two eligible attachments with the same filename processed in
\* one run write to the same key: both are counted as processed and the store
\* ends with a single object for them; the number of objects written equals
\* the processed count only when the successful filenames are pairwise
\* distinct.
C29_SameNameOneObject ==
    pc = "summary" /\ futures # NoFuture =>
       /\ processed_attachments = Cardinality(Successful)
       /\ \A i \in Successful : Cardinality(ObjectsNamed(NameOf(i))) = 1
       /\ Cardinality(DOMAIN bucket) = processed_attachments => NamesDistinct

\* C29, amended: the key is made of the date at the time the upload builds
\* its path and the filename. Every successful item is counted as processed; every object has
\* the name of a successful item and holds what an upload of such an item
\* writes; there are never more objects of a name than successful items of
\* that name or dates. When the date did not change during the run, all
\* successful items of one name share one object, and the number of objects
\* equals the processed count exactly when the successful filenames are
\* pairwise distinct.
C29_SameDateSameKey ==
    pc = "summary" /\ futures # NoFuture =>
       /\ processed_attachments = Cardinality(Successful)
       /\ \A path \in DOMAIN bucket :
             /\ path[1] \in Days
             /\ \E i \in Successful :
                   /\ NameOf(i) = path[2]
                   /\ bucket[path] =
                         B64Decode(UploadPayload(parse_attachment(all_attachments[i].attachment, path[1])))
       /\ \A i \in Successful :
             /\ ObjectsNamed(NameOf(i)) # {}
             /\ Cardinality(ObjectsNamed(NameOf(i))) <=
                   Cardinality({j \in Successful : NameOf(j) = NameOf(i)})
       /\ today = 0 =>
             /\ DOMAIN bucket = {BlobPath(0, n) : n \in SuccessfulNames}
             /\ Cardinality(DOMAIN bucket) = processed_attachments <=> NamesDistinct

\* two attachments of one name were uploaded on the same date: both are
\* counted, one object is in the bucket
C29_Witness ==
    /\ pc = "summary"
    /\ today = 0
    /\ Len(futures) = 2
    /\ Successful = {1, 2}
    /\ NameOf(1) = NameOf(2)
    /\ processed_attachments = 2
    /\ Cardinality(DOMAIN bucket) = 1

-----------------------------------------------------------------------------
(* Properties: case and whitespace in the type check *)

HasUpper(t) == Lower(t) # t

Padded(t) == t # <<>> /\ (t[1] = " " \/ t[Len(t)] = " ")

\* the configured type an attachment's filename matches, if any
MatchedBy(a, t) == Lower(TextAfterLastDot(a.filename)) = t

WithinCeiling(a) == a.size <= Ceiling(config)

\* C30 as stated: a filename with an upper- or mixed-case extension is
\* accepted exactly when the lowercase extension is in the configured list,
\* and a configured type that is not lowercase, or has surrounding
\* whitespace, matches no filename.
C30_OnlyCleanTypesMatch ==
    pc = "called" =>
       \A i \in DOMAIN call_args :
          LET a == call_args[i]
          IN  /\ WithinCeiling(a) =>
                    (Returned(a) <=> \E t \in AllowedTypes(config) : MatchedBy(a, t))
              /\ \A t \in AllowedTypes(config) :
                    (HasUpper(t) \/ Padded(t)) => ~(Returned(a) /\ MatchedBy(a, t))

\* C30, amended: only the filename side is lowercased. An attachment within
\* the size ceiling is accepted exactly when the lowercase of its extension,
\* whitespace included, is in the configured list; a configured type with an
\* uppercase character matches no filename; a configured type with
\* surrounding whitespace matches the filenames whose extension has the same
\* whitespace, and no others.
C30_OnlyFilenameIsLowercased ==
    pc = "called" =>
       \A i \in DOMAIN call_args :
          LET a == call_args[i]
              ext == TextAfterLastDot(a.filename)
          IN  /\ WithinCeiling(a) =>
                    (Returned(a) <=> \E t \in AllowedTypes(config) : MatchedBy(a, t))
              /\ \A t \in AllowedTypes(config) :
                    /\ HasUpper(t) => ~MatchedBy(a, t)
                    /\ (Padded(t) /\ WithinCeiling(a)) =>
                          /\ (Padded(ext) /\ Lower(ext) = t) => Returned(a)
                          /\ (AllowedTypes(config) = {t} /\ ~Padded(ext)) => ~Returned(a)

\* ATTACHMENT_TYPES = " p": the file ". p" is accepted
C30_Witness ==
    /\ pc = "called"
    /\ AllowedTypes(config) = {<<" ", "p">>}
    /\ Len(call_args) = 1
    /\ call_args[1].filename = <<".", " ", "p">>
    /\ call_result = call_args

====
